---- MODULE Spec2Model ----
(***************************************************************************)
(* Streaming ingestion pipeline of the job scraper.                        *)
(*                                                                         *)
(* Part I models archived_files/src/scraper.py: JobScraper.scrape with its *)
(* producer task (_produce_jobs driving job_stream), the bounded           *)
(* processing_queue, the consumer task (_consume_jobs) and the per-batch   *)
(* persistence decision (_process_jobs, save_batch).                       *)
(*                                                                         *)
(* Part II models app/core/scraper.py: JobScraper.run / JobScraper.stop    *)
(* and the status dictionary that guards and stops a run.                  *)
(*                                                                         *)
(* Every await of the code is a step boundary; the code between two awaits *)
(* is one atomic step.                                                     *)
(***************************************************************************)
EXTENDS Integers, Sequences, FiniteSets, TLC

(***************************************************************************)
(* Bounds of the model                                                     *)
(***************************************************************************)
MaxPages == 2        \* scraper_config["max_pages"]: ceiling of the page loop
MaxPageJobs == 2     \* most validated jobs one page yields
MaxQueue == 2        \* largest configured queue_size
MaxBatchSize == 2    \* largest configured batch_size
MaxDbRetries == 1    \* configured db_retries
MaxThreshold == 2    \* largest configured db_circuit_breaker_threshold
MaxConsumerErrors == 2  \* largest configured max_consumer_errors
MaxFailures == 1     \* largest configured max_failures
MaxFaults == 2       \* most failing database or file operations in one run
MaxRuns == 2         \* invocations of run() on one orchestrator
MaxRunPages == 2     \* largest max_pages argument of run()
MaxStops == 2        \* calls of stop()
MaxLifeJobs == 2     \* largest total_jobs_scraped a summarised run ends with
MaxLifeFailed == 2   \* most failed pages a summarised run ends with
MaxFetchPages == 3   \* largest max_pages of a page stream followed request by request
MaxRetryAfter == 10  \* largest Retry-After (seconds) a 429 response carries
MaxFetchFaults == 3  \* most requests of one page stream that are answered by an error
MaxRaw == 4          \* most raw records in one call of process_jobs
MaxJobIds == 2       \* distinct ids among the raw records of one call
MaxRowIds == 2       \* distinct job ids the database is given
MaxBatchIds == 2     \* distinct batch ids insert_jobs is called with
MaxCalls == 2        \* calls of insert_jobs on one database
MaxDbFaults == 1     \* database operations that fail during those calls
MaxSchedRuns == 2    \* scraping runs one scheduler starts
MaxChunks == 2       \* sleeps one wait of the scheduler is cut into

VARIABLES
    (* configuration, fixed for a run *)
    scraper_config,          \* record of the configured values read by the code
    db_propagates,           \* TRUE: the injected db_manager lets asyncpg errors
                             \* propagate; FALSE: DatabaseManager catches and returns 0
    (* JobScraper fields *)
    db_enabled,
    is_connected,            \* db_manager.is_connected
    current_batch,           \* self.current_batch
    total_jobs_scraped,
    failed_requests,
    monitoring_errors,       \* monitoring_data["errors"], the "type" of each entry
    processing_queue,
    (* scrape() *)
    scrape_pc,               \* "init", "scraping", "returned"
    status,
    (* _produce_jobs / job_stream *)
    prod_pc,                 \* "idle","fetch","put","tail","sentinel","done"
    page,
    page_jobs,               \* processed_jobs of the current page not yet yielded
    page_len,                \* len(processed_jobs) of the current page
    has_next,
    batch,                   \* _produce_jobs' local current_batch
    next_id,                 \* identity of the next record the upstream returns
    (* _consume_jobs / _process_jobs *)
    cons_pc,                 \* "idle","get","reconnect","insert","done"
    jobs_batch,
    consecutive_errors,
    retries,
    consecutive_db_failures,
    db_circuit_open,
    processed_count,
    (* outputs *)
    db_upserts,              \* batches insert_jobs has upserted, in order
    raw_files,               \* batches save_batch has written as JSON files
    unqueued_dump,           \* batches written to unqueued_jobs_<ts>.json
    (* history of the run *)
    hist,
    faults,                  \* failed database and file operations so far
    (* app/core/scraper.py: the orchestrator and the invocations of run() *)
    orch_status,             \* self.status: its "running" and "status" entries
    run_pc,                  \* per invocation: "idle","inpage","rejected","returned"
    run_page,                \* per invocation: page of the loop
    run_max,                 \* per invocation: the max_pages argument
    run_result,              \* per invocation: the status it wrote when it ended
    stops,                   \* calls of stop() so far
    run_hist,                \* history of the invocations
    (* archived_files/src/scraper.py: one call of run(), from initialize() to
       the finally block, with the pool of its DatabaseManager *)
    life,
    (* archived_files/src/scraper.py: job_stream and fetch_jobs, request by
       request, with the clock (in tenths of a second) *)
    fs,
    (* archived_files/src/scraper.py: one call of process_jobs *)
    proc,
    (* src/db_manager.py: the jobs and job_batches tables and the position of
       the current call of DatabaseManager.insert_jobs *)
    dbs,
    (* archived_files/src/scraper.py: one response body on its way through
       fetch_jobs and job_stream *)
    listing,
    (* src/scheduler.py: JobScraperScheduler, its two control flags and the
       position of its run() loop *)
    sched

pipeVars == << scraper_config, db_propagates, db_enabled, is_connected, current_batch,
               total_jobs_scraped, failed_requests, monitoring_errors,
               processing_queue, scrape_pc, status, prod_pc, page, page_jobs,
               page_len, has_next, batch, next_id, cons_pc, jobs_batch,
               consecutive_errors, retries, consecutive_db_failures,
               db_circuit_open, processed_count, db_upserts, raw_files,
               unqueued_dump, hist, faults >>

runVars == << orch_status, run_pc, run_page, run_max, run_result, stops, run_hist >>

auxVars == << life, fs, proc, dbs, listing, sched >>

vars == << pipeVars, runVars, auxVars >>

(***************************************************************************)
(* Helpers                                                                 *)
(***************************************************************************)
Range(s) == { s[i] : i \in 1..Len(s) }

\* the (None, None) tuple that ends the stream of batches
Sentinel == [none |-> TRUE, jobs |-> << >>]

\* a queue item that leaves out the first job of the batch
QueueItemShort(jobs) == [none |-> FALSE, jobs |-> Tail(jobs)]

\* the (current_batch, batch_id) tuple _produce_jobs puts on the queue
QueueItem(jobs) == [none |-> FALSE, jobs |-> jobs]

\* asyncio.Queue.full(): maxsize items are held
QueueFull == Len(processing_queue) >= scraper_config.queue_size

\* number of batches of store s that hold record r
Copies(s, r) == Cardinality({ i \in 1..Len(s) : r \in Range(s[i]) })

\* records job_stream has yielded to _produce_jobs
Yielded == (1..(next_id - 1)) \ Range(page_jobs)

\* records _produce_jobs has put on the queue
Enqueued == 1..hist.queued

H(field, value) == [hist EXCEPT ![field] = value]

(***************************************************************************)
(* Initial state: a constructed JobScraper on which run() has reached      *)
(* scrape().                                                               *)
(***************************************************************************)
Configs ==
    [ queue_size : 1..MaxQueue,
      batch_size : 1..MaxBatchSize,
      db_retries : {MaxDbRetries},
      db_circuit_breaker_threshold : 1..MaxThreshold,
      max_consumer_errors : 1..MaxConsumerErrors,
      max_failures : 0..MaxFailures,
      save_raw_data : BOOLEAN ]

HistInit ==
    [ queued |-> 0,                 \* records put on the queue so far
      persist_failed |-> FALSE,     \* some database or file operation failed
      lost_batches |-> 0,           \* batches _process_jobs reported with count 0
      stopped_early |-> FALSE,      \* consumer left its loop at the error limit
      sentinel_received |-> FALSE,
      producer_failed |-> FALSE,    \* _produce_jobs went through its except branch
      dump_failed |-> FALSE,        \* the unqueued-jobs dump could not be written
      circuit_opened |-> FALSE,     \* db_circuit_open was set in this run
      conn_failures |-> 0,          \* consecutive connection failures of the run
      insert_after_open |-> FALSE,  \* insert_jobs called after the circuit opened
      timed_out |-> FALSE,          \* wait_for raised TimeoutError in scrape()
      unauthorized |-> FALSE ]      \* fetch_jobs got HTTP 401 and returned None

\* the invocations of run() on the orchestrator
Runs == 1..MaxRuns

\* JobScraper.__init__ of app/core/scraper.py: status is idle, nothing runs
RunInit ==
    /\ orch_status = [running |-> FALSE, status |-> "idle"]
    /\ run_pc = [i \in Runs |-> "idle"]
    /\ run_page = [i \in Runs |-> 0]
    /\ run_max = [i \in Runs |-> 0]
    /\ run_result = [i \in Runs |-> "none"]
    /\ stops = 0
    /\ run_hist = [ stop_accepted |-> [i \in Runs |-> FALSE],
                    page_after_stop |-> [i \in Runs |-> FALSE],
                    accepted_during |-> [i \in Runs |-> FALSE],
                    page_after_empty |-> [i \in Runs |-> FALSE] ]

\* JobScraper.__init__ of archived_files/src/scraper.py, for the configurations
\* cfgs and the database wirings flags
PipeInit(cfgs, flags) ==
    /\ scraper_config \in cfgs
    /\ db_propagates \in flags
    /\ db_enabled \in flags
    /\ is_connected = FALSE
    /\ current_batch = 0
    /\ total_jobs_scraped = 0
    /\ failed_requests = << >>
    /\ monitoring_errors = << >>
    /\ processing_queue = << >>
    /\ scrape_pc = "init"
    /\ status = "failed"
    /\ prod_pc = "idle"
    /\ page = 1
    /\ page_jobs = << >>
    /\ page_len = 0
    /\ has_next = FALSE
    /\ batch = << >>
    /\ next_id = 1
    /\ cons_pc = "idle"
    /\ jobs_batch = << >>
    /\ consecutive_errors = 0
    /\ retries = 0
    /\ consecutive_db_failures = 0
    /\ db_circuit_open = FALSE
    /\ processed_count = 0
    /\ db_upserts = << >>
    /\ raw_files = << >>
    /\ unqueued_dump = << >>
    /\ hist = HistInit
    /\ faults = 0

\* a JobScraper on which run() has not been called: no pool exists yet, the
\* database is enabled or not by configuration
LifeInit ==
    life \in [ pc : {"start"},
               db_enabled : BOOLEAN,
               pool : {"none"},
               is_connected : {FALSE},
               total_jobs_scraped : {0},
               current_batch : {0},
               failed_requests : {<< >>},
               result : {[keys |-> {}, statistics |-> {}, status |-> "none",
                          total_jobs |-> 0, pages_processed |-> 0,
                          failed_request_pages |-> << >>]} ]

\* the variables a specification leaves alone start in one fixed state
LifeIdle == LifeInit /\ ~life.db_enabled

\* job_stream before its first page, for the page ceilings in ceilings
FetchInit(ceilings) ==
    fs \in [ pc : {"page"},
             page : {1},
             total_pages : ceilings,
             request_interval : {0, 1},
             attempt : {0},
             now : {0},
             requests : {<< >>},
             failed_requests : {<< >>},
             end : {"none"},
             faults : {0} ]

FetchIdle == FetchInit({1}) /\ fs.request_interval = 0

\* the raw records of a page, as far as process_jobs looks at them: the id,
\* and whether the title is absent, only whitespace, or text
RawJobs == [ id : 1..MaxJobIds, title : {"absent", "blank", "text"} ]

RawLists == UNION { [1..n -> RawJobs] : n \in 0..MaxRaw }

\* before process_jobs is called with one of the lists in lists
ProcInit(lists) ==
    proc \in [ pc : {"start"},
             jobs : lists,
             processed : {<< >>},
             duplicates : {0},
             invalid : {0} ]

ProcIdle == ProcInit({<< >>})

BatchIds == 1..MaxBatchIds

\* the argument of the call that is running or has returned last
NoCall == [ batch_id |-> 0, ids |-> {}, content |-> 0, batch_date |-> 0 ]

\* empty tables, no call of insert_jobs yet; the database can fail f more times
DbInit(budgets) ==
    dbs \in [ pc : {"idle"},
              now : {0},
              calls : {0},
              call : {NoCall},
              prev : {NoCall},
              prev_count : {0},
              before : {{}},
              rows : {{}},
              job_batches : {[b \in BatchIds |-> "none"]},
              count : {0},
              faults : budgets ]

DbIdle == DbInit({0})

\* the keys under which fetch_jobs looks for the listings, in its order
FieldNames == << "jobPosts", "jobs", "items", "results" >>

\* what the "data" object of a response holds under one key: nothing, null,
\* an empty array or an array of records
FieldValues == {"absent", "null", "empty", "listed"}

\* a response body has arrived and fetch_jobs is about to look at it
ListingInit(bodies) ==
    listing \in [ pc : {"fetch_jobs"},
                  data : bodies,
                  returned : {FALSE},
                  processed : {"none"} ]

ListingIdle == ListingInit({[i \in 1..Len(FieldNames) |-> "absent"]})

\* a constructed JobScraperScheduler whose run() has been called; h tells
\* whether the clock is inside the operating hours
SchedInit(hours) ==
    sched \in [ pc : {"loop"},
                shutdown_requested : {FALSE},
                pause_requested : {FALSE},
                within_hours : hours,
                remaining : {0},
                runs : {0} ]

SchedIdle == SchedInit({TRUE})

AuxIdle == LifeIdle /\ FetchIdle /\ ProcIdle /\ DbIdle /\ ListingIdle /\ SchedIdle

Init == PipeInit(Configs, BOOLEAN) /\ RunInit /\ AuxIdle

(***************************************************************************)
(* The environment: results of the collaborators' calls                    *)
(***************************************************************************)
\* db_manager.ensure_connection(): DatabaseManager.ensure_connection catches
\* every exception and answers False; an injected manager may raise
EnsureOutcomes == IF db_propagates THEN {"true", "false", "raise"} ELSE {"true", "false"}

\* db_manager.insert_jobs(jobs, batch_id): DatabaseManager.insert_jobs catches
\* every exception and returns 0; an injected manager may raise
InsertOutcomes ==
    IF db_propagates THEN {"ok", "zero", "conn_error", "db_error"} ELSE {"ok", "zero"}

\* what save_batch can do: write the JSON file; fail to write it (logged only);
\* fail outside the JSON step (logged, and a last-resort dump outside the data)
SaveOutcomes == {"saved", "json_error", "error"}

\* the outcomes in S the environment can still produce: the failing ones only
\* while fewer than MaxFaults operations have failed (f of them so far)
Possible(S, good, f) == { o \in S : o = good \/ f < MaxFaults }

Fault(o, good) == IF o = good THEN 0 ELSE 1

(***************************************************************************)
(* scrape(): initialisation phase and task creation                        *)
(***************************************************************************)
StartTasks ==
    /\ scrape_pc' = "scraping"
    /\ prod_pc' = "fetch"
    /\ cons_pc' = "get"

ScrapeInit ==
    /\ scrape_pc = "init"
    /\ IF db_enabled
       THEN \E o \in Possible(EnsureOutcomes, "true", faults) :
              /\ faults' = faults + Fault(o, "true")
              /\ CASE o = "true" ->
                        /\ is_connected' = TRUE
                        /\ StartTasks
                        /\ UNCHANGED << db_enabled, monitoring_errors, status >>
                   [] o = "false" ->
                        /\ db_enabled' = FALSE
                        /\ monitoring_errors' =
                             Append(monitoring_errors, "database_connection")
                        /\ StartTasks
                        /\ UNCHANGED << is_connected, status >>
                   [] OTHER ->
                        /\ status' = "failed"
                        /\ monitoring_errors' =
                             Append(monitoring_errors, "unhandled_exception")
                        /\ scrape_pc' = "returned"
                        /\ UNCHANGED << db_enabled, is_connected, prod_pc, cons_pc >>
       ELSE /\ StartTasks
            /\ UNCHANGED << db_enabled, is_connected, monitoring_errors, status,
                            faults >>
    /\ UNCHANGED << scraper_config, db_propagates, current_batch, total_jobs_scraped,
                    failed_requests, processing_queue, page, page_jobs, page_len,
                    has_next, batch, next_id, jobs_batch, consecutive_errors, retries,
                    consecutive_db_failures, db_circuit_open, processed_count,
                    db_upserts, raw_files, unqueued_dump, hist >>
    /\ UNCHANGED << runVars, auxVars >>

(***************************************************************************)
(* _produce_jobs and the job_stream generator it iterates                  *)
(***************************************************************************)
consumerSide == << cons_pc, jobs_batch, consecutive_errors, retries,
                   consecutive_db_failures, db_circuit_open, processed_count,
                   current_batch, db_upserts, raw_files, db_enabled, is_connected >>

scrapeSide == << scraper_config, db_propagates, scrape_pc, status, monitoring_errors >>

\* a put that completes whatever the queue holds
PutUnbounded(item) ==
    processing_queue' = Append(processing_queue, item)

\* asyncio.Queue.put: completes only while the queue is not full
Put(item) ==
    /\ ~QueueFull
    /\ processing_queue' = Append(processing_queue, item)

\* _produce_jobs once job_stream has ended: the remaining jobs are put, then
\* the sentinel
AfterStream(b) == IF b # << >> THEN "tail" ELSE "sentinel"

\* _produce_jobs and job_stream from one await to the next: the jobs pj of the
\* current page are yielded and appended to the batch b until the batch is
\* full (await put); when the page is used up job_stream adds its count, reads
\* hasNextPage and goes to the next page (await fetch_jobs) or ends
Advance(b, pj) ==
    LET room == scraper_config.batch_size - Len(b)
        k    == IF Len(pj) < room THEN Len(pj) ELSE room
        b2   == b \o SubSeq(pj, 1, k)
        pj2  == SubSeq(pj, k + 1, Len(pj))
    IN  /\ batch' = b2
        /\ page_jobs' = pj2
        /\ IF Len(b2) >= scraper_config.batch_size
           THEN /\ prod_pc' = "put"
                /\ UNCHANGED << page, total_jobs_scraped >>
           ELSE /\ total_jobs_scraped' = total_jobs_scraped + page_len'
                /\ IF ~has_next'
                   THEN /\ prod_pc' = AfterStream(b2)
                        /\ page' = page
                   ELSE /\ page' = page + 1
                        /\ prod_pc' = IF page' <= MaxPages THEN "fetch"
                                                           ELSE AfterStream(b2)

\* job_stream: the page was fetched and process_jobs kept n records of it
FetchPageOk ==
    /\ prod_pc = "fetch"
    /\ \E n \in 0..MaxPageJobs, hn \in BOOLEAN :
         /\ page_len' = n
         /\ next_id' = next_id + n
         /\ has_next' = hn
         /\ Advance(batch, [i \in 1..n |-> next_id + i - 1])
    /\ UNCHANGED << failed_requests, unqueued_dump, hist, faults, processing_queue >>
    /\ UNCHANGED consumerSide
    /\ UNCHANGED scrapeSide
    /\ UNCHANGED << runVars, auxVars >>

\* job_stream: fetch_jobs returned None, or the page holds no job: break
FetchPageEnd ==
    /\ prod_pc = "fetch"
    /\ prod_pc' = AfterStream(batch)
    /\ UNCHANGED << page, page_jobs, page_len, has_next, batch, next_id,
                    failed_requests, unqueued_dump, hist, faults, processing_queue,
                    total_jobs_scraped >>
    /\ UNCHANGED consumerSide
    /\ UNCHANGED scrapeSide
    /\ UNCHANGED << runVars, auxVars >>

\* _handle_error: TooManyFailuresError once the failures exceed max_failures
TooManyFailures(failed) == Len(failed) > scraper_config.max_failures

\* a dump that leaves out the first of the jobs not queued
DumpUnqueuedShort(b, ok) ==
    IF ok THEN Append(unqueued_dump, Tail(b)) ELSE unqueued_dump

\* _produce_jobs' except branch: the jobs produced but not queued are written
\* to unqueued_jobs_<timestamp>.json when that write succeeds
DumpUnqueued(b, ok) == IF ok THEN Append(unqueued_dump, b) ELSE unqueued_dump

\* job_stream: fetch_jobs raised; _handle_error records the page, then either the
\* loop breaks or TooManyFailuresError reaches _produce_jobs' except branch,
\* which dumps the records not yet queued and goes on to put the sentinel
FetchPageError ==
    /\ prod_pc = "fetch"
    /\ failed_requests' = Append(failed_requests, page)
    /\ IF TooManyFailures(failed_requests')
       THEN /\ prod_pc' = "sentinel"
            /\ IF batch # << >>
               THEN \E ok \in Possible(BOOLEAN, TRUE, faults) :
                      /\ unqueued_dump' = DumpUnqueued(batch, ok)
                      /\ faults' = faults + Fault(ok, TRUE)
                      /\ hist' = [hist EXCEPT !.producer_failed = TRUE,
                                              !.dump_failed = ~ok]
               ELSE /\ hist' = H("producer_failed", TRUE)
                    /\ UNCHANGED << unqueued_dump, faults >>
       ELSE /\ prod_pc' = AfterStream(batch)
            /\ UNCHANGED << unqueued_dump, hist, faults >>
    /\ UNCHANGED << page, page_jobs, page_len, has_next, batch, next_id,
                    processing_queue, total_jobs_scraped >>
    /\ UNCHANGED consumerSide
    /\ UNCHANGED scrapeSide
    /\ UNCHANGED << runVars, auxVars >>

\* _produce_jobs: a full batch is put on the queue and a new batch is started
PutBatch ==
    /\ prod_pc = "put"
    /\ Put(QueueItem(batch))
    /\ hist' = H("queued", hist.queued + Len(batch))
    /\ UNCHANGED << page_len, has_next, next_id, failed_requests, unqueued_dump,
                    faults >>
    /\ Advance(<< >>, page_jobs)
    /\ UNCHANGED consumerSide
    /\ UNCHANGED scrapeSide
    /\ UNCHANGED << runVars, auxVars >>

\* _produce_jobs after the stream ended: the remaining jobs are put
PutRemaining ==
    /\ prod_pc = "tail"
    /\ Put(QueueItem(batch))
    /\ hist' = H("queued", hist.queued + Len(batch))
    /\ batch' = << >>
    /\ prod_pc' = "sentinel"
    /\ UNCHANGED << page, page_jobs, page_len, has_next, next_id, failed_requests,
                    unqueued_dump, faults, total_jobs_scraped >>
    /\ UNCHANGED consumerSide
    /\ UNCHANGED scrapeSide
    /\ UNCHANGED << runVars, auxVars >>

\* _produce_jobs: (None, None) is put, on the normal and on the except branch
PutSentinel ==
    /\ prod_pc = "sentinel"
    /\ Put(Sentinel)
    /\ prod_pc' = "done"
    /\ UNCHANGED << page, page_jobs, page_len, has_next, batch, next_id,
                    failed_requests, unqueued_dump, hist, faults,
                    total_jobs_scraped >>
    /\ UNCHANGED consumerSide
    /\ UNCHANGED scrapeSide
    /\ UNCHANGED << runVars, auxVars >>

Producer ==
    \/ FetchPageOk
    \/ FetchPageEnd
    \/ FetchPageError
    \/ PutBatch
    \/ PutRemaining
    \/ PutSentinel

(***************************************************************************)
(* _consume_jobs and _process_jobs                                         *)
(***************************************************************************)
producerSide == << prod_pc, page, page_jobs, page_len, has_next, batch, next_id,
                   failed_requests, unqueued_dump >>

\* a consumer that goes on whatever the number of consecutive errors
ConsumerAfterNoLimit(count, cb, h) ==
    /\ consecutive_errors' = IF count > 0 THEN 0 ELSE consecutive_errors + 1
    /\ current_batch' = IF count > 0 THEN cb + 1 ELSE cb
    /\ cons_pc' = "get"
    /\ hist' = IF count > 0 THEN h ELSE [h EXCEPT !.lost_batches = @ + 1]

\* _consume_jobs after _process_jobs returned count; cb is self.current_batch
\* and h the history at that point
ConsumerAfter(count, cb, h) ==
    IF count > 0
    THEN /\ consecutive_errors' = 0
         /\ current_batch' = cb + 1
         /\ cons_pc' = "get"
         /\ hist' = h
    ELSE /\ consecutive_errors' = consecutive_errors + 1
         /\ current_batch' = cb
         /\ IF consecutive_errors' >= scraper_config.max_consumer_errors
            THEN /\ cons_pc' = "done"
                 /\ hist' = [h EXCEPT !.lost_batches = @ + 1, !.stopped_early = TRUE]
            ELSE /\ cons_pc' = "get"
                 /\ hist' = [h EXCEPT !.lost_batches = @ + 1]

\* _process_jobs from save_batch(jobs) to its return (count is processed_count
\* before the save), then _consume_jobs' bookkeeping; save_batch never raises;
\* f failures have happened before the save, h is the history before it
SaveBatchAndReturn(jobs, count, h, f) ==
    \E o \in Possible(SaveOutcomes, "saved", f) :
      /\ faults' = f + Fault(o, "saved")
      /\ raw_files' = IF o = "saved" THEN Append(raw_files, jobs) ELSE raw_files
      /\ total_jobs_scraped' = IF o \in {"saved", "json_error"}
                               THEN total_jobs_scraped + Len(jobs)
                               ELSE total_jobs_scraped
      /\ processed_count' = IF count = 0 THEN Len(jobs) ELSE count
      /\ ConsumerAfter(processed_count', current_batch + 1,
                       [h EXCEPT !.persist_failed = @ \/ (o # "saved")])

\* _consume_jobs takes the next item; on a batch, _process_jobs starts: its
\* circuit-breaker variables are created, and it runs up to its first await
ConsumeGet ==
    /\ cons_pc = "get"
    /\ processing_queue # << >>
    /\ processing_queue' = Tail(processing_queue)
    /\ LET item == Head(processing_queue) IN
       IF item.none
       THEN /\ cons_pc' = "done"
            /\ hist' = H("sentinel_received", TRUE)
            /\ UNCHANGED << jobs_batch, processed_count, db_circuit_open,
                            consecutive_db_failures, retries, raw_files,
                            total_jobs_scraped, consecutive_errors, current_batch,
                            faults >>
       ELSE /\ jobs_batch' = item.jobs
            /\ db_circuit_open' = FALSE
            /\ consecutive_db_failures' = 0
            /\ retries' = 0
            /\ IF db_enabled /\ ~db_circuit_open'
               THEN /\ processed_count' = 0
                    /\ cons_pc' = IF ~is_connected THEN "reconnect" ELSE "insert"
                    /\ UNCHANGED << hist, raw_files, total_jobs_scraped,
                                    consecutive_errors, current_batch, faults >>
               ELSE SaveBatchAndReturn(item.jobs, 0, hist, faults)
    /\ UNCHANGED << db_upserts, db_enabled, is_connected >>
    /\ UNCHANGED producerSide
    /\ UNCHANGED scrapeSide
    /\ UNCHANGED << runVars, auxVars >>

\* _process_jobs: the database was not connected and ensure_connection returned
Reconnect ==
    /\ cons_pc = "reconnect"
    /\ \E o \in Possible(EnsureOutcomes, "true", faults) :
         CASE o = "true" ->
                /\ is_connected' = TRUE
                /\ cons_pc' = "insert"
                /\ UNCHANGED << consecutive_db_failures, hist, faults,
                                consecutive_errors, current_batch, raw_files,
                                total_jobs_scraped, processed_count >>
           [] o = "false" ->
                /\ consecutive_db_failures' = consecutive_db_failures + 1
                /\ SaveBatchAndReturn(jobs_batch, 0,
                                      [hist EXCEPT !.conn_failures = @ + 1,
                                                   !.persist_failed = TRUE],
                                      faults + 1)
                /\ UNCHANGED is_connected
           [] OTHER ->
                \* the exception reaches the outer except of _process_jobs:
                \* error files and an emergency dump are tried, then return 0
                /\ processed_count' = 0
                /\ faults' = faults + 1
                /\ ConsumerAfter(0, current_batch,
                                 [hist EXCEPT !.persist_failed = TRUE])
                /\ UNCHANGED << is_connected, consecutive_db_failures, raw_files,
                                total_jobs_scraped >>
    /\ UNCHANGED << jobs_batch, retries, db_circuit_open, db_upserts, db_enabled,
                    processing_queue >>
    /\ UNCHANGED producerSide
    /\ UNCHANGED scrapeSide
    /\ UNCHANGED << runVars, auxVars >>

\* a retry loop that never gives up
RetriesNeverExhausted(r) == FALSE

\* the retry loop gives up once retries exceeds max_retries
RetriesExhausted(r) == r > scraper_config.db_retries

\* the circuit breaker opens at the threshold of consecutive failures
ThresholdReached(n) == n >= scraper_config.db_circuit_breaker_threshold

\* the retry loop after a failed pass: file storage once the retries are used
\* up, another pass otherwise
AfterFailedPass(r, h, f) ==
    IF RetriesExhausted(r)
    THEN SaveBatchAndReturn(jobs_batch, 0, h, f)
    ELSE /\ cons_pc' = "insert"
         /\ hist' = h
         /\ faults' = f
         /\ UNCHANGED << raw_files, total_jobs_scraped, processed_count,
                         consecutive_errors, current_batch >>

\* _process_jobs: one pass of the retry loop around insert_jobs
Insert ==
    /\ cons_pc = "insert"
    /\ LET h0 == [hist EXCEPT !.insert_after_open = @ \/ hist.circuit_opened] IN
       \E o \in Possible(InsertOutcomes, "ok", faults) :
         CASE o = "ok" ->
                /\ consecutive_db_failures' = 0
                /\ db_upserts' = Append(db_upserts, jobs_batch)
                /\ IF ~scraper_config.save_raw_data
                   THEN /\ processed_count' = Len(jobs_batch)
                        /\ ConsumerAfter(processed_count', current_batch,
                                         [h0 EXCEPT !.conn_failures = 0])
                        /\ UNCHANGED << raw_files, total_jobs_scraped, faults >>
                   ELSE SaveBatchAndReturn(jobs_batch, Len(jobs_batch),
                                           [h0 EXCEPT !.conn_failures = 0], faults)
                /\ UNCHANGED << retries, db_circuit_open, is_connected >>
           [] o = "zero" ->
                /\ consecutive_db_failures' = 0
                /\ is_connected' \in BOOLEAN
                /\ SaveBatchAndReturn(jobs_batch, 0,
                                      [h0 EXCEPT !.conn_failures = 0,
                                                 !.persist_failed = TRUE],
                                      faults + 1)
                /\ UNCHANGED << retries, db_circuit_open, db_upserts >>
           [] o = "conn_error" ->
                /\ retries' = retries + 1
                /\ consecutive_db_failures' = consecutive_db_failures + 1
                /\ is_connected' \in BOOLEAN
                /\ db_circuit_open' =
                     (RetriesExhausted(retries')
                        /\ ThresholdReached(consecutive_db_failures'))
                /\ AfterFailedPass(retries',
                                   [h0 EXCEPT !.conn_failures = @ + 1,
                                              !.persist_failed = TRUE,
                                              !.circuit_opened = @ \/ db_circuit_open'],
                                   faults + 1)
                /\ UNCHANGED db_upserts
           [] OTHER ->
                /\ retries' = retries + 1
                /\ AfterFailedPass(retries', [h0 EXCEPT !.persist_failed = TRUE],
                                   faults + 1)
                /\ UNCHANGED << consecutive_db_failures, db_circuit_open,
                                db_upserts, is_connected >>
    /\ UNCHANGED << jobs_batch, db_enabled, processing_queue >>
    /\ UNCHANGED producerSide
    /\ UNCHANGED scrapeSide
    /\ UNCHANGED << runVars, auxVars >>

Consumer ==
    \/ ConsumeGet
    \/ Reconnect
    \/ Insert

(***************************************************************************)
(* scrape(): both tasks finished, the status is derived from the errors    *)
(***************************************************************************)
FinalStatus(errors) == IF errors = << >> THEN "completed" ELSE "completed_with_errors"

ScrapeFinish ==
    /\ scrape_pc = "scraping"
    /\ prod_pc = "done"
    /\ cons_pc = "done"
    /\ status' = FinalStatus(monitoring_errors)
    /\ scrape_pc' = "returned"
    /\ UNCHANGED << scraper_config, db_propagates, monitoring_errors, hist, faults,
                    processing_queue, total_jobs_scraped >>
    /\ UNCHANGED producerSide
    /\ UNCHANGED consumerSide
    /\ UNCHANGED << runVars, auxVars >>

Next ==
    \/ ScrapeInit
    \/ Producer
    \/ Consumer
    \/ ScrapeFinish

Spec == Init /\ [][Next]_vars

(***************************************************************************)
(* Part II. app/core/scraper.py: JobScraper.run and JobScraper.stop         *)
(***************************************************************************)
\* how run() ends after its loop: the final status update, or the outer except
\* when the code after the update raises
FinishOutcomes == {"completed", "error"}

\* run() after its page loop: the status update to not running
RunExit(i, o) ==
    /\ orch_status' = [running |-> FALSE, status |-> o]
    /\ run_pc' = [run_pc EXCEPT ![i] = "returned"]
    /\ run_result' = [run_result EXCEPT ![i] = o]

\* the guard at the top of run()
AlreadyRunning == orch_status.running

\* the check at the top of every iteration of the page loop
ShouldStop == ~orch_status.running

\* run(max_pages) is invoked: rejected while running; otherwise the status is
\* set to running and the loop runs up to the await of its first page
RunInvoke(i) ==
    /\ run_pc[i] = "idle"
    /\ \E mp \in 0..MaxRunPages :
         /\ run_max' = [run_max EXCEPT ![i] = mp]
         /\ IF AlreadyRunning
            THEN /\ run_pc' = [run_pc EXCEPT ![i] = "rejected"]
                 /\ UNCHANGED << orch_status, run_page, run_result, run_hist >>
            ELSE /\ run_hist' = [run_hist EXCEPT !.accepted_during[i] =
                                   \E j \in Runs : run_pc[j] = "inpage"]
                 /\ IF mp >= 1
                    THEN /\ orch_status' = [running |-> TRUE, status |-> "running"]
                         /\ run_pc' = [run_pc EXCEPT ![i] = "inpage"]
                         /\ run_page' = [run_page EXCEPT ![i] = 1]
                         /\ UNCHANGED run_result
                    ELSE /\ \E o \in FinishOutcomes : RunExit(i, o)
                         /\ UNCHANGED run_page
    /\ UNCHANGED stops
    /\ UNCHANGED << pipeVars, auxVars >>

\* how the awaits of one page can end: jobs were found and saved, the page
\* had no data or an empty jobs list (continue), or an exception (continue)
PageResults == {"jobs", "empty", "error"}

\* the awaits of one page (fetch_page, process_jobs, save_jobs, sleep) are
\* over, whatever their result; the loop goes to its next iteration: it ends
\* after max_pages, breaks when the flag is down, or awaits the next page
PageDone(i) ==
    /\ run_pc[i] = "inpage"
    /\ IF run_page[i] + 1 > run_max[i] \/ ShouldStop
       THEN /\ \E o \in FinishOutcomes : RunExit(i, o)
            /\ UNCHANGED << run_page, run_hist >>
       ELSE /\ run_page' = [run_page EXCEPT ![i] = @ + 1]
            /\ \E r \in PageResults :
                 run_hist' = [run_hist EXCEPT
                                !.page_after_stop[i] = @ \/ run_hist.stop_accepted[i],
                                !.page_after_empty[i] = @ \/ (r = "empty")]
            /\ UNCHANGED << orch_status, run_pc, run_result >>
    /\ UNCHANGED << run_max, stops >>
    /\ UNCHANGED << pipeVars, auxVars >>

\* stop(): refused when nothing runs, otherwise the flag is lowered
Stop ==
    /\ stops < MaxStops
    /\ stops' = stops + 1
    /\ IF ~orch_status.running
       THEN UNCHANGED << orch_status, run_hist >>
       ELSE /\ orch_status' = [running |-> FALSE, status |-> "stopping"]
            /\ run_hist' = [run_hist EXCEPT !.stop_accepted =
                              [i \in Runs |-> @[i] \/ run_pc[i] = "inpage"]]
    /\ UNCHANGED << run_pc, run_page, run_max, run_result >>
    /\ UNCHANGED << pipeVars, auxVars >>

NextRun ==
    \/ \E i \in Runs : RunInvoke(i)
    \/ \E i \in Runs : PageDone(i)
    \/ Stop

\* one pipeline configuration, left alone while the orchestrator is studied
InitRun == PipeInit({CHOOSE c \in Configs : TRUE}, {FALSE}) /\ RunInit /\ AuxIdle

SpecRun == InitRun /\ [][NextRun]_vars

(***************************************************************************)
(* Part III. The pipeline with the run-level timeout of scrape() and with   *)
(* the HTTP 401 answer of fetch_jobs told apart from its other None results *)
(***************************************************************************)
\* a scrape() that records nothing when its timeout expires
TimeoutErrorsNone(errors) == errors

\* scrape()'s except asyncio.TimeoutError: the "timeout" entry is appended
TimeoutErrors(errors) == Append(errors, "timeout")

\* a task after producer.cancel() / consumer.cancel(): one that is done stays
\* done, any other is cancelled at the await it is suspended in
Cancelled(pc) == IF pc = "done" THEN "done" ELSE "cancelled"

\* scrape(): wait_for(gather(producer, consumer), max_runtime) raises
\* TimeoutError while a task is still at work; both tasks are cancelled, the
\* timeout is recorded and scrape() goes on to its status and its result;
\* consumer is where _consume_jobs is when asyncio.wait(timeout=10) returns
TimeoutTo(consumer) ==
    /\ scrape_pc = "scraping"
    /\ ~(prod_pc = "done" /\ cons_pc = "done")
    /\ prod_pc' = Cancelled(prod_pc)
    /\ cons_pc' = consumer
    /\ monitoring_errors' = TimeoutErrors(monitoring_errors)
    /\ status' = FinalStatus(monitoring_errors')
    /\ scrape_pc' = "returned"
    /\ hist' = H("timed_out", TRUE)
    /\ UNCHANGED << scraper_config, db_propagates, db_enabled, is_connected,
                    current_batch, total_jobs_scraped, failed_requests,
                    processing_queue, page, page_jobs, page_len, has_next, batch,
                    next_id, jobs_batch, consecutive_errors, retries,
                    consecutive_db_failures, db_circuit_open, processed_count,
                    db_upserts, raw_files, unqueued_dump, faults >>
    /\ UNCHANGED << runVars, auxVars >>

\* both tasks have exited by the time asyncio.wait([producer, consumer],
\* timeout=10) returns
Timeout == TimeoutTo(Cancelled(cons_pc))

\* _consume_jobs is suspended inside the database manager: in
\* ensure_connection or inside insert_jobs' pool.acquire() / conn.transaction()
ConsumerInDb == cons_pc \in {"reconnect", "insert"}

\* the consumer was cancelled inside the database manager and the exits of
\* its async with blocks (rollback, release of the connection) still await
\* the database when the ten seconds of asyncio.wait are over: the set of
\* pending tasks is not looked at and scrape() goes on
TimeoutWaitExpired ==
    /\ ConsumerInDb
    /\ TimeoutTo("cancelling")

\* the rollback and the release end; CancelledError reaches _consume_jobs'
\* except asyncio.CancelledError, which breaks out of the loop
CancelCleanupDone ==
    /\ cons_pc = "cancelling"
    /\ cons_pc' = "cancelled"
    /\ UNCHANGED << jobs_batch, consecutive_errors, retries,
                    consecutive_db_failures, db_circuit_open, processed_count,
                    db_upserts, raw_files, total_jobs_scraped, current_batch,
                    db_enabled, is_connected, faults, processing_queue, hist >>
    /\ UNCHANGED producerSide
    /\ UNCHANGED scrapeSide
    /\ UNCHANGED << runVars, auxVars >>

\* job_stream: fetch_jobs got HTTP 401, logged it and returned None without
\* raising; job_stream takes the empty response and breaks
FetchPageUnauthorized ==
    /\ prod_pc = "fetch"
    /\ prod_pc' = AfterStream(batch)
    /\ hist' = H("unauthorized", TRUE)
    /\ UNCHANGED << page, page_jobs, page_len, has_next, batch, next_id,
                    failed_requests, unqueued_dump, faults, processing_queue,
                    total_jobs_scraped >>
    /\ UNCHANGED consumerSide
    /\ UNCHANGED scrapeSide
    /\ UNCHANGED << runVars, auxVars >>

\* the configurations under which the extended pipeline is explored
ConfigsExt ==
    { c \in Configs : /\ c.queue_size = 1
                      /\ c.db_circuit_breaker_threshold = 1
                      /\ c.max_consumer_errors = 1 }

InitExt == PipeInit(ConfigsExt, BOOLEAN) /\ RunInit /\ AuxIdle

NextExt ==
    \/ Next
    \/ Timeout
    \/ TimeoutWaitExpired
    \/ CancelCleanupDone
    \/ FetchPageUnauthorized

SpecExt == InitExt /\ [][NextExt]_vars

(***************************************************************************)
(* Part IV. archived_files/src/scraper.py: JobScraper.run from initialize() *)
(* to its finally block, and the pool of db_manager.py's DatabaseManager    *)
(***************************************************************************)
\* _log_final_statistics reports at most this many failed pages
StatsPageLimit == 10

\* what db_manager.initialize() can do: [result, pool]; DatabaseManager returns
\* True with its pool open, or False with the pool not created or created
\* before the step that failed; an injected manager may raise
InitializeOutcomes ==
    { [result |-> "true", pool |-> "open"],
      [result |-> "false", pool |-> "none"],
      [result |-> "false", pool |-> "open"],
      [result |-> "raise", pool |-> "none"],
      [result |-> "raise", pool |-> "open"] }

\* the dictionary run() returns when initialize() reported a failure
InitFailedSummary ==
    [ keys |-> {"total_jobs", "pages_processed", "status", "error"},
      statistics |-> {},
      status |-> "failed",
      total_jobs |-> 0,
      pages_processed |-> 0,
      failed_request_pages |-> << >> ]

\* the keys of the statistics _log_final_statistics compiles
StatsKeys ==
    { "total_jobs_scraped", "pages_processed", "failed_requests",
      "failed_request_percentage", "failed_request_pages", "jobs_per_page",
      "jobs_per_second", "runtime_seconds", "end_time", "memory_usage_mb" }

\* the failed pages _log_final_statistics puts in the statistics
FailedRequestPages(failed) ==
    SubSeq(failed, 1, IF Len(failed) < StatsPageLimit THEN Len(failed)
                                                      ELSE StatsPageLimit)

\* the dictionary scrape() returns, which run() passes on
ScrapeSummary(st, jobs, batches, failed) ==
    [ keys |-> {"total_jobs", "pages_processed", "status", "error",
                "runtime_seconds", "timestamp", "statistics"},
      statistics |-> StatsKeys,
      status |-> st,
      total_jobs |-> jobs,
      pages_processed |-> batches,
      failed_request_pages |-> FailedRequestPages(failed) ]

\* run() calls initialize(): with the database enabled db_manager.initialize()
\* is awaited; False switches the database off, an exception makes
\* initialize() return False and run() return its failure dictionary
LifeInitialize ==
    /\ life.pc = "start"
    /\ IF life.db_enabled
       THEN \E o \in InitializeOutcomes :
              life' = CASE o.result = "true" ->
                             [life EXCEPT !.pc = "scrape", !.pool = o.pool,
                                          !.is_connected = TRUE]
                        [] o.result = "false" ->
                             [life EXCEPT !.pc = "scrape", !.pool = o.pool,
                                          !.db_enabled = FALSE]
                        [] OTHER ->
                             [life EXCEPT !.pc = "finally", !.pool = o.pool,
                                          !.result = InitFailedSummary]
       ELSE life' = [life EXCEPT !.pc = "scrape"]
    /\ UNCHANGED << pipeVars, runVars, fs, proc, dbs, listing, sched >>

\* run() awaits scrape(): ensure_connection() at its start (False switches the
\* database off and is recorded as an error, an exception ends scrape() as
\* failed), then the scraping phase, summarised by what it leaves behind
LifeScrape ==
    /\ life.pc = "scrape"
    /\ \E o \in {"true", "false", "raise"}, n \in 0..MaxLifeJobs,
          b \in 0..MaxLifeJobs, f \in 0..MaxLifeFailed, lost \in BOOLEAN :
         /\ life.db_enabled \/ o = "true"
         /\ b <= n
         /\ life' =
              IF o = "raise"
              THEN [life EXCEPT !.pc = "finally", !.is_connected = FALSE,
                                !.result = ScrapeSummary("failed", 0, 0, << >>)]
              ELSE [life EXCEPT
                      !.pc = "finally",
                      !.db_enabled = life.db_enabled /\ o = "true",
                      !.is_connected = life.db_enabled /\ o = "true" /\ ~lost,
                      !.total_jobs_scraped = n,
                      !.current_batch = b,
                      !.failed_requests = [i \in 1..f |-> i],
                      !.result = ScrapeSummary(
                                    FinalStatus(IF o = "false"
                                                THEN << "database_connection" >>
                                                ELSE << >>),
                                    n, b, [i \in 1..f |-> i])]
    /\ UNCHANGED << pipeVars, runVars, fs, proc, dbs, listing, sched >>

\* the guard of the finally block of run()
ShouldClose == life.db_enabled

\* db_manager.close(): an existing pool is closed
Close(pool) == IF pool = "open" THEN "closed" ELSE pool

\* run()'s finally block, then run() returns
LifeFinally ==
    /\ life.pc = "finally"
    /\ life' = [life EXCEPT !.pc = "returned",
                            !.pool = IF ShouldClose THEN Close(life.pool)
                                                    ELSE life.pool]
    /\ UNCHANGED << pipeVars, runVars, fs, proc, dbs, listing, sched >>

NextLife ==
    \/ LifeInitialize
    \/ LifeScrape
    \/ LifeFinally

InitLife ==
    /\ PipeInit({CHOOSE c \in Configs : TRUE}, {FALSE})
    /\ RunInit
    /\ LifeInit
    /\ FetchIdle
    /\ ProcIdle
    /\ DbIdle
    /\ ListingIdle
    /\ SchedIdle

SpecLife == InitLife /\ [][NextLife]_vars

(***************************************************************************)
(* Part V. archived_files/src/scraper.py: job_stream and fetch_jobs, one    *)
(* HTTP request at a time. Times are in tenths of a second.                 *)
(***************************************************************************)
\* tenacity: stop_after_attempt(3)
StopAfterAttempt == 3

\* tenacity: wait_exponential(multiplier=1, min=4, max=10), in seconds
WaitMin == 4

WaitMax == 10

Seconds(n) == n * 10

Pow2(n) == IF n <= 0 THEN 1 ELSE 2 ^ n

\* the wait tenacity inserts after failed attempt number k
TenacityWait(k) ==
    LET exp == Pow2(k - 1)
        capped == IF exp < WaitMax THEN exp ELSE WaitMax
    IN  Seconds(IF capped > WaitMin THEN capped ELSE WaitMin)

\* jitter = 0.5 + random.random(), in tenths: from 0.5 to just under 1.5
Jitters == {5, 14}

\* the Retry-After values (seconds) of the 429 responses
RetryAfters == {2, MaxRetryAfter}

\* fetch_jobs on HTTP 429: delay = float(retry_after) * jitter
RetryDelay(retry_after, jitter) == retry_after * jitter

\* what one POST can come back with: a page of jobs, an empty page, a body
\* fetch_jobs gives up on (None), HTTP 401, 429, another status of 400 or
\* more, a body that is not JSON, or no response (connection error, timeout)
Responses ==
    [ status : {"jobs"}, has_next : BOOLEAN, retry_after : {0}, jitter : {0} ]
    \cup [ status : {"empty", "none", "401", "404", "bad_json",
                      "conn_error", "timeout"},
           has_next : {FALSE}, retry_after : {0}, jitter : {0} ]
    \cup [ status : {"429"}, has_next : {FALSE}, retry_after : RetryAfters,
           jitter : Jitters ]

\* a fetcher that treats HTTP 401 like every other error status
RaisesAlso401(r) ==
    r.status \in {"401", "429", "404", "bad_json", "conn_error", "timeout"}

\* outcomes on which fetch_jobs raises (raise_for_status, JSONDecodeError,
\* the errors of the POST itself); all of them are aiohttp.ClientError,
\* asyncio.TimeoutError or JSONDecodeError, which tenacity retries
Raises(r) ==
    r.status \in {"429", "404", "bad_json", "conn_error", "timeout"}

\* responses on which fetch_jobs returns None
ReturnsNone(r) == r.status \in {"none", "401"}

\* the entry of the request log for a POST of page p at time t answered by r
Request(p, t, r) ==
    [ page |-> p, at |-> t, status |-> r.status, has_next |-> r.has_next,
      retry_after |-> r.retry_after,
      delay |-> IF r.status = "429" THEN RetryDelay(r.retry_after, r.jitter) ELSE 0 ]

\* job_stream's except branch: _handle_error records the page and the loop is
\* left (by break, or by TooManyFailuresError)
StreamError(f) ==
    [f EXCEPT !.pc = "ended", !.end = "error",
              !.failed_requests = Append(@, f.page)]

\* fetch_jobs raised on attempt f.attempt: tenacity waits and tries again, or
\* gives up after StopAfterAttempt attempts and the error reaches job_stream
AfterRaise(f) ==
    IF f.attempt < StopAfterAttempt THEN [f EXCEPT !.pc = "wait"]
                                    ELSE StreamError(f)

\* a stream that goes on to the next page whatever hasNextPage says
AfterPageAlways(f, more) ==
    IF f.page + 1 > f.total_pages
    THEN [f EXCEPT !.pc = "ended", !.end = "max_pages", !.page = @ + 1]
    ELSE [f EXCEPT !.pc = "page", !.page = @ + 1]

\* job_stream after a page of jobs was yielded: hasNextPage and the ceiling
AfterPage(f, more) ==
    IF ~more THEN [f EXCEPT !.pc = "ended", !.end = "no_next"]
    ELSE IF f.page + 1 > f.total_pages
         THEN [f EXCEPT !.pc = "ended", !.end = "max_pages", !.page = @ + 1]
         ELSE [f EXCEPT !.pc = "page", !.page = @ + 1]

\* job_stream: top of the loop, the request interval is slept, fetch_jobs is
\* called and reaches its first POST
FetchStart ==
    /\ fs.pc = "page"
    /\ fs' = [fs EXCEPT !.pc = "attempt", !.attempt = 1,
                        !.now = @ + Seconds(fs.request_interval)]
    /\ UNCHANGED << pipeVars, runVars, life, proc, dbs, listing, sched >>

\* fetch_jobs: one POST and what is done with its response
FetchAttempt ==
    /\ fs.pc = "attempt"
    /\ \E r \in Responses :
         LET f == [fs EXCEPT !.requests = Append(@, Request(fs.page, fs.now, r)),
                             !.faults = IF Raises(r) THEN @ + 1 ELSE @]
         IN  /\ Raises(r) => fs.faults < MaxFetchFaults
             /\ fs' = CASE r.status = "429" -> [f EXCEPT !.pc = "sleep429"]
                         [] Raises(r) /\ r.status # "429" -> AfterRaise(f)
                         [] ReturnsNone(r) ->
                              [f EXCEPT !.pc = "ended", !.end = "none"]
                         [] r.status = "empty" ->
                              [f EXCEPT !.pc = "ended", !.end = "empty"]
                         [] OTHER -> AfterPage(f, r.has_next)
    /\ UNCHANGED << pipeVars, runVars, life, proc, dbs, listing, sched >>

\* a fetcher that raises on a 429 without sleeping first
FetchSleepSkipped ==
    /\ fs.pc = "sleep429"
    /\ fs' = AfterRaise(fs)
    /\ UNCHANGED << pipeVars, runVars, life, proc, dbs, listing, sched >>

\* fetch_jobs: the sleep after a 429 is over, raise_for_status() raises
FetchSleepDone ==
    /\ fs.pc = "sleep429"
    /\ fs' = AfterRaise([fs EXCEPT !.now = @ + fs.requests[Len(fs.requests)].delay])
    /\ UNCHANGED << pipeVars, runVars, life, proc, dbs, listing, sched >>

\* tenacity: the wait between two attempts is over
FetchWaitDone ==
    /\ fs.pc = "wait"
    /\ fs' = [fs EXCEPT !.pc = "attempt", !.attempt = @ + 1,
                        !.now = @ + TenacityWait(fs.attempt)]
    /\ UNCHANGED << pipeVars, runVars, life, proc, dbs, listing, sched >>

NextFetch ==
    \/ FetchStart
    \/ FetchAttempt
    \/ FetchSleepDone
    \/ FetchWaitDone

InitFetch ==
    /\ PipeInit({CHOOSE c \in Configs : TRUE}, {FALSE})
    /\ RunInit
    /\ LifeIdle
    /\ ProcIdle
    /\ DbIdle
    /\ FetchInit(1..MaxFetchPages)
    /\ ListingIdle
    /\ SchedIdle

SpecFetch == InitFetch /\ [][NextFetch]_vars

(***************************************************************************)
(* Part VI. archived_files/src/scraper.py: process_jobs                     *)
(***************************************************************************)
\* process_jobs: "id", "title" and "activationTime" must all be keys of the
\* record (the id and the activation time are present in every RawJobs record)
HasRequiredFields(job) == job.title # "absent"

\* _clean_job_data: the title is stripped of surrounding whitespace
CleanJobData(job) ==
    [job EXCEPT !.title = IF @ = "blank" THEN "empty" ELSE @]

\* _validate_job: the fields its loop goes through
RequiredFields == << "title", "url", "locations" >>

\* _validate_job: the loop over the required fields logs a missing field and
\* then returns False in its first iteration, whatever the field holds
\* (`return False` stands at the level of the `if`, not inside it); the
\* checks after the loop are reached only with no required field
ValidateJob(job) == IF Len(RequiredFields) > 0 THEN FALSE ELSE TRUE

RECURSIVE ProcessFrom(_, _, _, _)
\* process_jobs: the loop over the raw records from position i on, with the
\* ids seen so far and the result and counters so far
ProcessFrom(jobs, i, seen_ids, acc) ==
    IF i > Len(jobs) THEN acc
    ELSE LET job == jobs[i]
         IN  IF ~HasRequiredFields(job)
             THEN ProcessFrom(jobs, i + 1, seen_ids,
                              [acc EXCEPT !.invalid = @ + 1])
             ELSE IF job.id \in seen_ids
             THEN ProcessFrom(jobs, i + 1, seen_ids,
                              [acc EXCEPT !.duplicates = @ + 1])
             ELSE IF ~ValidateJob(CleanJobData(job))
             THEN ProcessFrom(jobs, i + 1, seen_ids \cup {job.id},
                              [acc EXCEPT !.invalid = @ + 1])
             ELSE ProcessFrom(jobs, i + 1, seen_ids \cup {job.id},
                              [acc EXCEPT !.processed =
                                              Append(@, CleanJobData(job))])

\* one call of process_jobs
ProcessJobs ==
    /\ proc.pc = "start"
    /\ LET out == ProcessFrom(proc.jobs, 1, {},
                              [processed |-> << >>, duplicates |-> 0,
                               invalid |-> 0])
       IN  proc' = [proc EXCEPT !.pc = "done",
                            !.processed = out.processed,
                            !.duplicates = out.duplicates,
                            !.invalid = out.invalid]
    /\ UNCHANGED << pipeVars, runVars, life, fs, dbs, listing, sched >>

NextProc ==
    \/ ProcessJobs

InitProc ==
    /\ PipeInit({CHOOSE c \in Configs : TRUE}, {FALSE})
    /\ RunInit
    /\ LifeIdle
    /\ FetchIdle
    /\ DbIdle
    /\ ProcInit(RawLists)
    /\ ListingIdle
    /\ SchedIdle

SpecProc == InitProc /\ [][NextProc]_vars

(***************************************************************************)
(* Part VII. src/db_manager.py: DatabaseManager.insert_jobs                 *)
(***************************************************************************)
\* the batches insert_jobs is given: jobs with distinct ids, all with the same
\* content (a second call can bring the same jobs or changed ones)
Batches == [ ids : (SUBSET (1..MaxRowIds)) \ {{}}, content : {1, 2} ]

\* what a statement sent to the database can do
DbOutcomes == {"ok", "error"}

\* the outcomes the database can still produce in state d
DbPossible(d) == { o \in DbOutcomes : o = "ok" \/ d.faults > 0 }

\* the budget of failures after outcome o
DbAfter(d, o) == [d EXCEPT !.faults = IF o = "ok" THEN @ ELSE @ - 1]

\* _transform_job_for_db for every job of the call: the rows of the staging
\* table, each carrying the batch id and the batch date of the call
StagedRows(call) ==
    { [ id |-> i, content |-> call.content, batch_id |-> call.batch_id,
        batch_date |-> call.batch_date ] : i \in call.ids }

\* INSERT INTO jobs without the ON CONFLICT clause, were the key not enforced
InsertOnly(rows, staged, now) ==
    rows \cup { [ id |-> s.id, content |-> s.content, batch_id |-> s.batch_id,
                  batch_date |-> s.batch_date, created_at |-> now,
                  updated_at |-> now ] : s \in staged }

\* DELETE the conflicting rows and INSERT the staged ones afresh, which would
\* give a replaced row a new created_at
UpsertRecreate(rows, staged, now) ==
    { r \in rows : r.id \notin { s.id : s \in staged } }
        \cup { [ id |-> s.id, content |-> s.content, batch_id |-> s.batch_id,
                  batch_date |-> s.batch_date, created_at |-> now,
                  updated_at |-> now ] : s \in staged }

\* INSERT INTO jobs ... SELECT ... FROM jobs_temp ON CONFLICT (id) DO UPDATE:
\* a row whose id is staged takes every staged column and updated_at = NOW()
\* and keeps created_at; a staged id without a row becomes a new row
Upsert(rows, staged, now) ==
    LET ids == { s.id : s \in staged }
        kept == { r \in rows : r.id \notin ids }
        merged(s) ==
            LET old == { r \in rows : r.id = s.id }
            IN  { [ id |-> s.id, content |-> s.content, batch_id |-> s.batch_id,
                    batch_date |-> s.batch_date,
                    created_at |-> IF old = {} THEN now
                                   ELSE (CHOOSE r \in old : TRUE).created_at,
                    updated_at |-> now ] }
    IN  kept \cup UNION { merged(s) : s \in staged }

\* insert_jobs(jobs, batch_id) is called: ensure_connection, then batch_date
\* is taken from the clock; without a connection 0 is returned at once
InsertJobs ==
    /\ dbs.pc = "idle"
    /\ dbs.calls < MaxCalls
    /\ \E b \in Batches, bid \in BatchIds, o \in DbPossible(dbs) :
         LET d == [DbAfter(dbs, o) EXCEPT
                      !.calls = @ + 1,
                      !.now = @ + 1,
                      !.prev = dbs.call,
                      !.prev_count = dbs.count,
                      !.before = dbs.rows,
                      !.call = [ batch_id |-> bid, ids |-> b.ids,
                                 content |-> b.content,
                                 batch_date |-> dbs.now + 1 ]]
         IN  dbs' = IF o = "ok" THEN [d EXCEPT !.pc = "start_batch"]
                    ELSE [d EXCEPT !.pc = "idle", !.count = 0]
    /\ UNCHANGED << pipeVars, runVars, life, fs, proc, listing, sched >>

\* _start_batch: the tracking row is written with status processing; a
\* failure is logged and insert_jobs goes on
StartBatch ==
    /\ dbs.pc = "start_batch"
    /\ \E o \in DbPossible(dbs) :
         dbs' = [DbAfter(dbs, o) EXCEPT
                    !.pc = "transaction",
                    !.job_batches[dbs.call.batch_id] =
                        IF o = "ok" THEN "processing" ELSE @]
    /\ UNCHANGED << pipeVars, runVars, life, fs, proc, listing, sched >>

\* the transaction: truncate the staging table, stage the rows, merge them
\* into jobs; on an error nothing is committed and the except branch is taken
UpsertTransaction ==
    /\ dbs.pc = "transaction"
    /\ \E o \in DbPossible(dbs) :
         dbs' = IF o = "ok"
                THEN [DbAfter(dbs, o) EXCEPT
                         !.pc = "staged",
                         !.rows = Upsert(@, StagedRows(dbs.call), dbs.now)]
                ELSE [DbAfter(dbs, o) EXCEPT !.pc = "failing"]
    /\ UNCHANGED << pipeVars, runVars, life, fs, proc, listing, sched >>

\* _complete_batch (a failure is logged only), then the number of staged
\* rows is returned
CompleteBatch ==
    /\ dbs.pc = "staged"
    /\ \E o \in DbPossible(dbs) :
         dbs' = [DbAfter(dbs, o) EXCEPT
                    !.pc = "idle",
                    !.count = Cardinality(dbs.call.ids),
                    !.job_batches[dbs.call.batch_id] =
                        IF o = "ok" THEN "completed" ELSE @]
    /\ UNCHANGED << pipeVars, runVars, life, fs, proc, listing, sched >>

\* the except branch: _fail_batch (a failure is logged only), then 0 is
\* returned
FailBatch ==
    /\ dbs.pc = "failing"
    /\ \E o \in DbPossible(dbs) :
         dbs' = [DbAfter(dbs, o) EXCEPT
                    !.pc = "idle",
                    !.count = 0,
                    !.job_batches[dbs.call.batch_id] =
                        IF o = "ok" THEN "failed" ELSE @]
    /\ UNCHANGED << pipeVars, runVars, life, fs, proc, listing, sched >>

NextDb ==
    \/ InsertJobs
    \/ StartBatch
    \/ UpsertTransaction
    \/ CompleteBatch
    \/ FailBatch

InitDb ==
    /\ PipeInit({CHOOSE c \in Configs : TRUE}, {FALSE})
    /\ RunInit
    /\ LifeIdle
    /\ FetchIdle
    /\ ProcIdle
    /\ DbInit(0..MaxDbFaults)
    /\ ListingIdle
    /\ SchedIdle

SpecDb == InitDb /\ [][NextDb]_vars

(***************************************************************************)
(* Part VIII. archived_files/src/scraper.py: the listings of one response   *)
(* body, as fetch_jobs and then job_stream read them                        *)
(***************************************************************************)
\* every "data" object over the four keys
Bodies == [1..Len(FieldNames) -> FieldValues]

\* fetch_jobs' loop over the field names: the index of the first key that is
\* in the object (whatever its value), 0 if none is
FirstPresent(data) ==
    IF \A i \in 1..Len(FieldNames) : data[i] = "absent" THEN 0
    ELSE CHOOSE i \in 1..Len(FieldNames) :
            /\ data[i] # "absent"
            /\ \A j \in 1..(i - 1) : data[j] = "absent"

\* fetch_jobs returns the body if job_posts is not None, and None otherwise
FetchJobsReturnsData(data) ==
    /\ FirstPresent(data) # 0
    /\ data[FirstPresent(data)] # "null"

\* job_stream: response_data.get("data", {}).get("jobPosts", [])
JobPosts(data) == IF data[1] = "absent" THEN "empty" ELSE data[1]

\* fetch_jobs has parsed the body and returns it or None
FetchJobsReturn ==
    /\ listing.pc = "fetch_jobs"
    /\ listing' = [listing EXCEPT !.pc = "job_stream",
                                  !.returned = FetchJobsReturnsData(listing.data)]
    /\ UNCHANGED << pipeVars, runVars, life, fs, proc, dbs, sched >>

\* job_stream: break on an empty response, break on an empty listing,
\* otherwise the listing goes to process_jobs
StreamListing ==
    /\ listing.pc = "job_stream"
    /\ listing' = [listing EXCEPT
                      !.pc = "done",
                      !.processed =
                          IF listing.returned /\ JobPosts(listing.data) = "listed"
                          THEN FieldNames[1] ELSE "none"]
    /\ UNCHANGED << pipeVars, runVars, life, fs, proc, dbs, sched >>

NextListing ==
    \/ FetchJobsReturn
    \/ StreamListing

InitListing ==
    /\ PipeInit({CHOOSE c \in Configs : TRUE}, {FALSE})
    /\ RunInit
    /\ LifeIdle
    /\ FetchIdle
    /\ ProcIdle
    /\ DbIdle
    /\ ListingInit(Bodies)
    /\ SchedIdle

SpecListing == InitListing /\ [][NextListing]_vars

(***************************************************************************)
(* Part IX. src/scheduler.py: JobScraperScheduler.run with                  *)
(* wait_until_operating_hours and _wait_with_check. A wait is a number of   *)
(* sleeps; the clock may cross a boundary of the operating hours during any *)
(* sleep.                                                                   *)
(***************************************************************************)
\* a loop that goes on whatever the shutdown flag says
KeepsLoopingAlways(s) == TRUE

\* run(): while not self.shutdown_requested
KeepsLooping(s) == ~s.shutdown_requested

\* the lengths a wait can have, in sleeps
Chunks == 1..MaxChunks

\* request_shutdown()
RequestShutdown ==
    /\ sched.pc # "stopped"
    /\ ~sched.shutdown_requested
    /\ sched' = [sched EXCEPT !.shutdown_requested = TRUE]
    /\ UNCHANGED << pipeVars, runVars, life, fs, proc, dbs, listing >>

\* pause()
Pause ==
    /\ sched.pc # "stopped"
    /\ ~sched.pause_requested
    /\ sched' = [sched EXCEPT !.pause_requested = TRUE]
    /\ UNCHANGED << pipeVars, runVars, life, fs, proc, dbs, listing >>

\* resume()
Resume ==
    /\ sched.pc # "stopped"
    /\ sched.pause_requested
    /\ sched' = [sched EXCEPT !.pause_requested = FALSE]
    /\ UNCHANGED << pipeVars, runVars, life, fs, proc, dbs, listing >>

\* run(): from the loop condition to the first await of the iteration: the
\* loop ends, or the pause sleep starts, or wait_until_operating_hours starts
\* its first sleep, or a scraping run is started
LoopTop ==
    /\ sched.pc = "loop"
    /\ IF ~KeepsLooping(sched)
       THEN sched' = [sched EXCEPT !.pc = "stopped"]
       ELSE IF sched.pause_requested
       THEN sched' = [sched EXCEPT !.pc = "paused_sleep"]
       ELSE IF ~sched.within_hours
       THEN \E n \in Chunks :
               sched' = [sched EXCEPT !.pc = "hours_sleep", !.remaining = n]
       ELSE /\ sched.runs < MaxSchedRuns
            /\ sched' = [sched EXCEPT !.pc = "initialize", !.runs = @ + 1]
    /\ UNCHANGED << pipeVars, runVars, life, fs, proc, dbs, listing >>

\* run(): the sleep of the paused scheduler ends; continue
PausedWake ==
    /\ sched.pc = "paused_sleep"
    /\ \E h \in BOOLEAN :
         sched' = [sched EXCEPT !.pc = "loop", !.within_hours = h]
    /\ UNCHANGED << pipeVars, runVars, life, fs, proc, dbs, listing >>

\* wait_until_operating_hours: one sleep ends. On a shutdown request it
\* returns and run() breaks; with time left it sleeps again; at the end of
\* the wait it looks at the clock again and either returns (run() continues)
\* or computes the next wait
HoursWake ==
    /\ sched.pc = "hours_sleep"
    /\ \E h \in BOOLEAN, n \in Chunks :
         sched' =
            IF sched.shutdown_requested
            THEN [sched EXCEPT !.pc = "stopped", !.within_hours = h,
                               !.remaining = @ - 1]
            ELSE IF sched.remaining > 1
            THEN [sched EXCEPT !.within_hours = h, !.remaining = @ - 1]
            ELSE IF h
            THEN [sched EXCEPT !.pc = "loop", !.within_hours = h,
                               !.remaining = 0]
            ELSE [sched EXCEPT !.within_hours = h, !.remaining = n]
    /\ UNCHANGED << pipeVars, runVars, life, fs, proc, dbs, listing >>

\* run(): scraper.initialize() returns, or raises into the outer except,
\* which sleeps a minute
InitializeDone ==
    /\ sched.pc = "initialize"
    /\ \E o \in {"ok", "raise"} :
         sched' = [sched EXCEPT !.pc = IF o = "ok" THEN "running"
                                      ELSE "error_sleep"]
    /\ UNCHANGED << pipeVars, runVars, life, fs, proc, dbs, listing >>

\* run(): scraper.run() returns or raises (both are recorded in the
\* statistics), the time of the next run is computed and _wait_with_check
\* runs up to its first sleep, which it skips on a shutdown or pause request
RunDone ==
    /\ sched.pc = "running"
    /\ \E h \in BOOLEAN, n \in Chunks :
         sched' =
            IF sched.shutdown_requested \/ sched.pause_requested
            THEN [sched EXCEPT !.pc = "loop", !.within_hours = h]
            ELSE [sched EXCEPT !.pc = "wait", !.within_hours = h,
                               !.remaining = n]
    /\ UNCHANGED << pipeVars, runVars, life, fs, proc, dbs, listing >>

\* _wait_with_check: one sleep ends; it returns on a shutdown request, on a
\* pause request and at the end of the wait, and sleeps again otherwise
WaitWake ==
    /\ sched.pc = "wait"
    /\ \E h \in BOOLEAN :
         sched' =
            IF \/ sched.shutdown_requested
               \/ sched.pause_requested
               \/ sched.remaining <= 1
            THEN [sched EXCEPT !.pc = "loop", !.within_hours = h,
                               !.remaining = 0]
            ELSE [sched EXCEPT !.within_hours = h, !.remaining = @ - 1]
    /\ UNCHANGED << pipeVars, runVars, life, fs, proc, dbs, listing >>

\* run(): the sleep of the outer except ends
ErrorWake ==
    /\ sched.pc = "error_sleep"
    /\ \E h \in BOOLEAN :
         sched' = [sched EXCEPT !.pc = "loop", !.within_hours = h]
    /\ UNCHANGED << pipeVars, runVars, life, fs, proc, dbs, listing >>

\* the steps of run() that need nothing but the event loop to go on
SchedulerStep ==
    \/ LoopTop
    \/ PausedWake
    \/ HoursWake
    \/ WaitWake
    \/ ErrorWake

NextSched ==
    \/ RequestShutdown
    \/ Pause
    \/ Resume
    \/ LoopTop
    \/ PausedWake
    \/ HoursWake
    \/ InitializeDone
    \/ RunDone
    \/ WaitWake
    \/ ErrorWake

InitSched ==
    /\ PipeInit({CHOOSE c \in Configs : TRUE}, {FALSE})
    /\ RunInit
    /\ LifeIdle
    /\ FetchIdle
    /\ ProcIdle
    /\ DbIdle
    /\ ListingIdle
    /\ SchedInit(BOOLEAN)

\* the event loop wakes every sleeping coroutine and runs every ready one
SpecSched == InitSched /\ [][NextSched]_vars /\ WF_vars(SchedulerStep)

(***************************************************************************)
(* Properties of the pipeline (checked under Spec)                         *)
(***************************************************************************)
\* records the page stream has handed out in this run
Records == 1..(next_id - 1)

\* scrape() has returned a result built after both tasks ended
RunEnded == scrape_pc = "returned" /\ status # "failed"

\* record r is in a store of the persisted output, and in none of them twice
PersistedOnce(r) ==
    /\ Copies(db_upserts, r) <= 1
    /\ Copies(raw_files, r) <= 1
    /\ Copies(db_upserts, r) + Copies(raw_files, r) >= 1

C2_OpensAtThreshold ==
    /\ db_circuit_open
          => hist.conn_failures >= scraper_config.db_circuit_breaker_threshold
    /\ hist.conn_failures >= scraper_config.db_circuit_breaker_threshold
          => hist.circuit_opened

\* C3 as stated: once the circuit has opened in a run, insert_jobs is not called
\* again in that run.
C3_NoInsertAfterOpen == ~hist.insert_after_open

\* C4: the queue never holds more than queue_size items, and a put completes
\* only from a state in which the queue holds fewer than queue_size items.
C4_QueueBounded ==
    /\ [](Len(processing_queue) <= scraper_config.queue_size)
    /\ [][Len(processing_queue') > Len(processing_queue)
            => Len(processing_queue) < scraper_config.queue_size]_vars

C4_Witness ==
    /\ prod_pc = "put"
    /\ Len(processing_queue) = scraper_config.queue_size
    /\ scraper_config.queue_size = MaxQueue
    /\ cons_pc = "insert"

\* C5 as stated: the pipeline shuts down by itself, without the timeout: in
\* every state either scrape() has returned or one of its tasks can take a
\* step (the producer is never left waiting on a queue nobody reads, nor the
\* consumer on a queue nobody fills).
C5_ShutsDown == scrape_pc = "returned" \/ ENABLED Next

\* every record yielded so far was put on the queue or is in the dump
NoneDropped == \A r \in Yielded : r \in Enqueued \/ Copies(unqueued_dump, r) >= 1

C7_StopsEarly ==
    /\ [](/\ consecutive_errors <= scraper_config.max_consumer_errors
          /\ consecutive_errors >= scraper_config.max_consumer_errors
                => cons_pc = "done" /\ hist.stopped_early
          /\ hist.stopped_early => cons_pc = "done"
          /\ processed_count > 0 => consecutive_errors = 0)
    /\ [][cons_pc = "done"
            => /\ cons_pc' = "done"
               /\ UNCHANGED << db_upserts, raw_files, jobs_batch, current_batch,
                               consecutive_errors >>
               /\ Len(processing_queue') >= Len(processing_queue)]_vars

C7_Witness ==
    /\ hist.stopped_early
    /\ cons_pc = "done"
    /\ consecutive_errors = scraper_config.max_consumer_errors
    /\ Len(db_upserts) + Len(raw_files) > 0
    /\ processing_queue # << >>

\* C10 as stated: a run that ends completed lost no batch, never opened the
\* circuit and did not stop its consumer early.
C10_CompletedMeansClean ==
    (scrape_pc = "returned" /\ status = "completed")
        => /\ hist.lost_batches = 0
           /\ ~hist.circuit_opened
           /\ ~hist.stopped_early

\* the batch b was written to store s
InStore(s, b) == \E i \in 1..Len(s) : s[i] = b

\* C14 as stated: when _process_jobs has returned for a batch, its count is
\* positive exactly if the batch was upserted into the database or written to
\* a batch file.
C14_CountedIffPersisted ==
    (cons_pc \in {"get", "done"} /\ jobs_batch # << >>)
        => (processed_count > 0
              <=> InStore(db_upserts, jobs_batch) \/ InStore(raw_files, jobs_batch))

\* C11: once the run-level timeout has expired, each task is done or has
\* been cancelled (it has exited or is on its way out), the run's errors hold
\* the timeout entry, and the status scrape() returns is
\* completed_with_errors or failed.
C11_TimeoutEndsWithErrors ==
    hist.timed_out
        => /\ prod_pc \in {"done", "cancelled"}
           /\ cons_pc \in {"done", "cancelled", "cancelling"}
           /\ scrape_pc = "returned"
           /\ \E i \in 1..Len(monitoring_errors) : monitoring_errors[i] = "timeout"
           /\ status \in {"completed_with_errors", "failed"}

C11_Witness ==
    /\ hist.timed_out
    /\ prod_pc = "cancelled"
    /\ cons_pc = "cancelled"
    /\ Len(monitoring_errors) = 1
    /\ jobs_batch # << >>

\* C32: when scrape() has left its scraping phase, the producer task and the
\* consumer task have both exited
C32_TasksExitedBeforeReturn ==
    scrape_pc = "returned"
        => /\ prod_pc \in {"done", "cancelled"}
           /\ cons_pc \in {"done", "cancelled"}

\* the producer is suspended in processing_queue.put on a full queue
ProducerBlocked == prod_pc \in {"put", "tail", "sentinel"} /\ QueueFull

\* C34: once the consumer has left its loop at the error limit, the producer
\* is never suspended in a put on a full queue (nobody would take an item out
\* again, so it would wait until the run-level timeout)
C34_ProducerNotBlocked ==
    (hist.stopped_early /\ cons_pc = "done") => ~ProducerBlocked

\* a pass of the retry loop in which insert_jobs returned 0 without raising:
\* the loop is left, no retry is counted and nothing was upserted
ZeroRowPass ==
    /\ cons_pc = "insert"
    /\ cons_pc' # "insert"
    /\ retries' = retries
    /\ db_upserts' = db_upserts

\* C24: an upsert that returns without error and reports zero rows is a
\* success: the batch is not written to the file fallback
C24_ZeroRowsNoFile == [][ZeroRowPass => raw_files' = raw_files]_vars

\* C35: a call of insert_jobs that failed and reported it by returning 0 is
\* seen as a failure by _process_jobs: the consecutive-failure counter goes
\* up in that step instead of being reset or left alone
C35_FailureCounted ==
    [][ZeroRowPass => consecutive_db_failures' > consecutive_db_failures]_vars

\* C25: the consecutive-failure counter changes only by going up by one in a
\* step in which the database connection failed, or by going to zero in a
\* step in which insert_jobs returned; and the circuit opens only in a step
\* in which the counter went up
C25_CounterFrame ==
    [][ /\ consecutive_db_failures' # consecutive_db_failures =>
             \/ /\ consecutive_db_failures' = consecutive_db_failures + 1
                /\ cons_pc \in {"reconnect", "insert"}
                /\ hist'.conn_failures = hist.conn_failures + 1
             \/ /\ consecutive_db_failures' = 0
                /\ cons_pc = "insert"
                /\ retries' = retries
        /\ (db_circuit_open' /\ ~db_circuit_open) =>
             consecutive_db_failures' = consecutive_db_failures + 1 ]_vars

\* the file section of _process_jobs ran in this step: save_batch was called
\* and the batch number went up there and again in _consume_jobs
FileSectionRan == current_batch' = current_batch + 2

\* _process_jobs returns to _consume_jobs in this step: the consumer had
\* taken a batch, or takes one now, and is back at the queue or done after it
BatchReturned ==
    /\ cons_pc' \in {"get", "done"}
    /\ IF cons_pc = "get"
       THEN /\ processing_queue # << >>
            /\ ~Head(processing_queue).none
            /\ processing_queue' = Tail(processing_queue)
       ELSE cons_pc \in {"reconnect", "insert"}

\* C38: current_batch goes up by exactly one in a step in which _process_jobs
\* returns a positive count to the consumer, and does not change otherwise
C38_BatchCountedOnce ==
    [][current_batch' =
          IF BatchReturned /\ processed_count' > 0
          THEN current_batch + 1 ELSE current_batch]_vars

\* C39: when scrape() has returned, total_jobs_scraped is the number of
\* validated records the page stream yielded
C39_TotalIsYielded ==
    scrape_pc = "returned" => total_jobs_scraped = Cardinality(Yielded)

\* C26: a pass of the retry loop starts only while at most max_retries passes
\* have failed, so insert_jobs is called at most max_retries + 1 times for a
\* batch; and the step that leaves the loop has either upserted the batch or
\* handed it to the file section
C26_BoundedRetries ==
    /\ [](cons_pc = "insert" => retries <= scraper_config.db_retries)
    /\ [][(cons_pc = "insert" /\ cons_pc' # "insert") =>
             \/ db_upserts' = Append(db_upserts, jobs_batch)
             \/ FileSectionRan]_vars

\* every allowed attempt of a batch failed and the batch is in the raw files
C26_Witness ==
    /\ scraper_config.db_retries = MaxDbRetries
    /\ retries = scraper_config.db_retries + 1
    /\ cons_pc # "insert"
    /\ db_upserts = << >>
    /\ raw_files # << >>

\* _process_jobs has returned for a batch that the database was tried for and
\* that is neither among the upserts nor among the batch files
BothPathsFailed ==
    /\ cons_pc \in {"get", "done"}
    /\ jobs_batch # << >>
    /\ db_enabled
    /\ hist.persist_failed
    /\ ~InStore(db_upserts, jobs_batch)
    /\ ~InStore(raw_files, jobs_batch)

\* C29: a batch for which the database path and the file fallback both failed
\* is reported with processed count 0, and that one lost batch does not stop
\* the consumer
C29_LostBatchReported ==
    BothPathsFailed =>
        /\ processed_count = 0
        /\ (hist.lost_batches <= 1 => ~hist.stopped_early)

\* C16: a run in which the upstream answered HTTP 401 ends in state "failed"
C16_UnauthorizedFails ==
    (scrape_pc = "returned" /\ hist.unauthorized) => status = "failed"

(***************************************************************************)
(* Properties of the page stream (checked under SpecFetch)                 *)
(***************************************************************************)
\* the pages of the requests issued so far, in the order they were issued
RequestedPages == [i \in 1..Len(fs.requests) |-> fs.requests[i].page]

\* C15: a request answered with HTTP 401 is the last request of the run: the
\* page is not requested again, no other page is requested, and the stream
\* has ended
C15_NoRequestAfter401 ==
    \A i \in 1..Len(fs.requests) :
        fs.requests[i].status = "401" =>
            /\ i = Len(fs.requests)
            /\ fs.pc = "ended"

\* a 401 on a later page, below the page ceiling, after an earlier retry
C15_Witness ==
    /\ Len(fs.requests) >= 3
    /\ fs.requests[Len(fs.requests)].status = "401"
    /\ fs.page > 1
    /\ fs.page < fs.total_pages
    /\ fs.pc = "ended"

\* C17: a page that failed after its retries is counted as failed and the
\* stream goes on to the next page: the stream ends on a failed page only
\* when that page is the last one allowed
C17_ContinuesAfterFailedPage ==
    (fs.pc = "ended" /\ fs.end = "error") =>
        /\ fs.failed_requests # << >>
        /\ fs.page = fs.total_pages

\* every request so far was answered with a non-empty page of jobs
AllSucceeded == \A i \in 1..Len(fs.requests) : fs.requests[i].status = "jobs"

\* C18: when every fetch succeeds with a non-empty page, a page was requested
\* only after all the pages before it, each once, in increasing order; and
\* once page p has reported hasNextPage = false, the requests are exactly
\* those of pages 1..p and none follows
C18_PagesInOrderUntilLast ==
    AllSucceeded =>
        /\ RequestedPages = [i \in 1..Len(fs.requests) |-> i]
        /\ \A p \in 1..Len(fs.requests) :
              ~fs.requests[p].has_next =>
                  /\ Len(fs.requests) = p
                  /\ fs.pc = "ended"
                  /\ fs.end = "no_next"

\* page 3 is the first page without a next page, and the ceiling is above 3
\* or at 3: three requests were made
C18_Witness ==
    /\ AllSucceeded
    /\ fs.end = "no_next"
    /\ fs.page = 3
    /\ RequestedPages = << 1, 2, 3 >>

\* C19: after a 429 response with Retry-After d, the next request of that
\* page is made no earlier than d times the jitter factor (at least half of
\* d) after the 429; with Retry-After 2 it is at least 2 seconds later
C19_WaitsRetryAfter ==
    \A i \in 1..Len(fs.requests) :
        LET r == fs.requests[i]
        IN  r.status = "429" =>
              /\ r.delay * 2 >= Seconds(r.retry_after)
              /\ fs.pc = "attempt" => fs.now - r.at >= r.delay
              /\ i < Len(fs.requests) =>
                    LET n == fs.requests[i + 1]
                    IN  /\ n.page = r.page
                        /\ n.at - r.at >= r.delay
                        /\ r.retry_after = 2 => n.at - r.at >= Seconds(2)

\* a 429 with the largest Retry-After was followed by the next attempt
C19_Witness ==
    \E i \in 1..Len(fs.requests) - 1 :
        /\ fs.requests[i].status = "429"
        /\ fs.requests[i].retry_after = MaxRetryAfter
        /\ fs.requests[i + 1].at - fs.requests[i].at > TenacityWait(1)

(***************************************************************************)
(* Properties of process_jobs (checked under SpecProc)                     *)
(***************************************************************************)
\* the records of jobs that lack a title
MissingTitle(jobs) == { i \in 1..Len(jobs) : jobs[i].title = "absent" }

\* the records of jobs that have a title and repeat the id of an earlier
\* record that has one
Repeated(jobs) ==
    { i \in 1..Len(jobs) :
        /\ jobs[i].title # "absent"
        /\ \E k \in 1..(i - 1) :
              jobs[k].title # "absent" /\ jobs[k].id = jobs[i].id }

\* every raw record is counted once: returned, duplicate or invalid
Partitioned ==
    Len(proc.processed) + proc.duplicates + proc.invalid = Len(proc.jobs)

\* C20: process_jobs partitions its input, and of records that are complete
\* except for some missing titles, the ones missing a title are the invalid
\* ones, the repeated ids are the duplicates, and all the others are returned
C20_PartitionWithCounts ==
    proc.pc = "done" =>
        /\ Partitioned
        /\ (\A i \in 1..Len(proc.jobs) : proc.jobs[i].title # "blank") =>
              /\ proc.invalid = Cardinality(MissingTitle(proc.jobs))
              /\ proc.duplicates = Cardinality(Repeated(proc.jobs))
              /\ Len(proc.processed) =
                    Len(proc.jobs) - Cardinality(MissingTitle(proc.jobs))
                                 - Cardinality(Repeated(proc.jobs))

\* the records of jobs that come after a record with the same id and whose id
\* is the id of a record of the validated output
RepeatsKept(jobs, kept) ==
    { i \in 1..Len(jobs) :
        /\ \E k \in 1..(i - 1) : jobs[k].id = jobs[i].id
        /\ \E p \in 1..Len(kept) : kept[p].id = jobs[i].id }

\* C36: process_jobs counts as duplicates no more records than there are
\* records repeating the id of a record it kept
C36_DuplicateOnlyOfKept ==
    proc.pc = "done" =>
        proc.duplicates <= Cardinality(RepeatsKept(proc.jobs, proc.processed))

(***************************************************************************)
(* Properties of insert_jobs (checked under SpecDb)                        *)
(***************************************************************************)
\* insert_jobs has returned from a second call that was given the batch and
\* the batch id of the call before it, and that first call had merged its rows
SecondIdentical ==
    /\ dbs.pc = "idle"
    /\ dbs.calls >= 2
    /\ dbs.prev_count > 0
    /\ dbs.call.batch_id = dbs.prev.batch_id
    /\ dbs.call.ids = dbs.prev.ids
    /\ dbs.call.content = dbs.prev.content

RowIds(rows) == { r.id : r \in rows }

\* no id has two rows in the jobs table
OneRowPerId == Cardinality(dbs.rows) = Cardinality(RowIds(dbs.rows))

\* C23 as stated: the second call leaves the same rows and changes nothing
\* but updated_at
C23_AsStated ==
    SecondIdentical =>
        /\ OneRowPerId
        /\ RowIds(dbs.rows) = RowIds(dbs.before)
        /\ \A r \in dbs.rows : \E q \in dbs.before :
              [q EXCEPT !.updated_at = r.updated_at] = r

\* C23: no id ever has two rows, and a second call with the same batch and
\* batch id leaves the same ids in the table and changes, in the rows of the
\* batch, nothing but updated_at and batch_date
C23_Idempotent ==
    /\ OneRowPerId
    /\ SecondIdentical =>
          /\ RowIds(dbs.rows) = RowIds(dbs.before)
          /\ \A r \in dbs.rows : \E q \in dbs.before :
                [q EXCEPT !.updated_at = r.updated_at,
                          !.batch_date = r.batch_date] = r

\* the second call merged its rows too
C23_Witness ==
    /\ SecondIdentical
    /\ dbs.count > 0
    /\ dbs.rows # dbs.before
    /\ Cardinality(dbs.rows) = MaxRowIds

\* the requests made for page p
RequestsOf(p) == { i \in 1..Len(fs.requests) : fs.requests[i].page = p }

\* C27: a page is requested at most three times, and a request is followed
\* by another request for the same page only if it ended in a connection
\* error, a timeout or a JSON decode error
C27_RetryOnlyTransport ==
    /\ \A p \in 1..MaxFetchPages : Cardinality(RequestsOf(p)) <= StopAfterAttempt
    /\ \A i \in 1..(Len(fs.requests) - 1) :
          fs.requests[i + 1].page = fs.requests[i].page =>
              fs.requests[i].status \in {"conn_error", "timeout", "bad_json"}

\* C30: while the rows of a call are staged and merged, the tracking row of
\* its batch id says processing; and a tracking row changes only from absent
\* to processing, from processing to completed, or from processing to failed
C30_BatchRowLifecycle ==
    /\ [](dbs.pc = "staged" => dbs.job_batches[dbs.call.batch_id] = "processing")
    /\ [][\A b \in BatchIds :
             dbs'.job_batches[b] # dbs.job_batches[b] =>
                 \/ /\ dbs.job_batches[b] = "none"
                    /\ dbs'.job_batches[b] = "processing"
                 \/ /\ dbs.job_batches[b] = "processing"
                    /\ dbs'.job_batches[b] \in {"completed", "failed"}]_vars

\* the step of insert_jobs in which the transaction commits the merge
Merged == dbs.pc = "transaction" /\ dbs'.pc = "staged"

\* C31: the merge gives every staged id one row that carries the staged
\* columns and a fresh updated_at; a row that was there before keeps its
\* created_at; rows of other ids are left as they were; and no other step
\* of insert_jobs changes the jobs table
C31_MergeOverwrites ==
    [][/\ Merged =>
            /\ \A s \in StagedRows(dbs.call) :
                  \E r \in dbs'.rows :
                     /\ r.id = s.id
                     /\ r.content = s.content
                     /\ r.batch_id = s.batch_id
                     /\ r.batch_date = s.batch_date
                     /\ r.updated_at = dbs.now
                     /\ \A q \in dbs.rows :
                           q.id = s.id => /\ r.created_at = q.created_at
                                          /\ r.updated_at > q.updated_at
            /\ \A q \in dbs.rows : q.id \notin dbs.call.ids => q \in dbs'.rows
            /\ Cardinality(dbs'.rows) = Cardinality(RowIds(dbs'.rows))
            /\ RowIds(dbs'.rows) = RowIds(dbs.rows) \cup dbs.call.ids
       /\ ~Merged => dbs'.rows = dbs.rows]_vars

\* a merge has replaced the content of a row and left another row alone
C31_Witness ==
    /\ dbs.pc = "staged"
    /\ \E r \in dbs.rows, q \in dbs.before :
          /\ r.id = q.id
          /\ r.content # q.content
          /\ r.created_at = q.created_at
          /\ r.updated_at > q.updated_at
    /\ \E u \in dbs.rows : u.id \notin dbs.call.ids /\ u \in dbs.before

(***************************************************************************)
(* Properties of the listings of a response (checked under SpecListing)    *)
(***************************************************************************)
\* the first key, in the order of FieldNames, that is present and not null;
\* 0 if there is none
FirstNonNull(data) ==
    IF \A i \in 1..Len(FieldNames) : data[i] \in {"absent", "null"} THEN 0
    ELSE CHOOSE i \in 1..Len(FieldNames) :
            /\ data[i] \notin {"absent", "null"}
            /\ \A j \in 1..(i - 1) : data[j] \in {"absent", "null"}

\* C33: when the page stream is through with a response whose first present
\* and non-null key holds records, the records under that key are the ones
\* that were handed to process_jobs
C33_FirstKeyProcessed ==
    (listing.pc = "done" /\ FirstNonNull(listing.data) # 0
        /\ listing.data[FirstNonNull(listing.data)] = "listed")
        => listing.processed = FieldNames[FirstNonNull(listing.data)]

(***************************************************************************)
(* Properties of the scheduler (checked under SpecSched)                   *)
(***************************************************************************)
\* run() is suspended in one of its three waits
Waiting == sched.pc \in {"paused_sleep", "hours_sleep", "wait"}

\* C37: once shutdown is requested no scraping run is started, and a
\* scheduler that is paused, waiting for its operating hours or waiting for
\* the next run when the request is there leaves its run() loop
C37_ShutdownStopsScheduler ==
    /\ [][sched.shutdown_requested => sched'.runs = sched.runs]_vars
    /\ (sched.shutdown_requested /\ Waiting) ~> (sched.pc = "stopped")

\* after a run, shutdown was requested while the scheduler waited for its
\* operating hours with time left, and run() has ended
C37_Witness ==
    /\ sched.pc = "stopped"
    /\ sched.shutdown_requested
    /\ sched.runs >= 1
    /\ sched.remaining > 0

(***************************************************************************)
(* Properties of one call of run() (checked under SpecLife)                *)
(***************************************************************************)
\* C12 as stated: when run() has returned, no pool of the database manager is
\* left open.
C12_PoolReleased == life.pc = "returned" => life.pool # "open"

\* C13 as stated: the dictionary run() returns always holds record counts and
\* the list of failed pages, whatever its status.
C13_SummaryComplete ==
    life.pc = "returned"
        => /\ "total_jobs" \in life.result.keys
           /\ "failed_request_pages" \in life.result.keys \cup life.result.statistics

(***************************************************************************)
(* Properties of the orchestrator (checked under SpecRun)                  *)
(***************************************************************************)
\* invocations of run() that are inside the page loop
Looping == { i \in Runs : run_pc[i] = "inpage" }

\* C8 as stated: at most one invocation of run() is inside its page loop, and
\* none was let in while another was inside its loop.
C8_OneRunAtATime ==
    /\ Cardinality(Looping) <= 1
    /\ \A i \in Runs : ~run_hist.accepted_during[i]

\* C9 as stated: an invocation that was in its loop when a stop was accepted
\* starts no page after it and ends with the status stopped.
C9_StopsCleanly ==
    \A i \in Runs :
        /\ ~run_hist.page_after_stop[i]
        /\ (run_pc[i] = "returned" /\ run_hist.stop_accepted[i])
              => run_result[i] = "stopped"

\* C28: no page above the ceiling is requested, and no page is requested
\* after a response with an empty listings array
C28_StopsAtCeilingOrEmpty ==
    \A i \in Runs :
        /\ run_page[i] <= run_max[i]
        /\ ~run_hist.page_after_empty[i]

====
